---- MODULE Spec2Model ----
(***************************************************************************)
(* Model of src/app.py: the task store (Task rows), the add_task route and *)
(* the check_deadlines scheduler job with its per-scan database session.   *)
(*                                                                         *)
(* Time is counted in units of 30 minutes: timedelta(hours=1) is 2 units   *)
(* and timedelta(days=1) is 48 units.  A task id is the row's position in  *)
(* the table (autoincrement primary key, rows are never deleted).          *)
(***************************************************************************)
EXTENDS Integers, Sequences, FiniteSets, TLC

\* ------------------------------------------------------------ bounds
MaxNow == 2
MaxTasks == 2
MaxFaults == 1

\* ------------------------------------------------------------ program constants
\* timedelta(hours=1) and timedelta(days=1) in 30-minute units
HourWindow == 2
DayWindow == 48

Kinds == {"1 day", "1 hour"}
Statuses == {"Pending", "Done"}
\* the threads of the scheduler's pool that can run the job
Scanners == {1, 2}

\* due dates the forms and the pre-existing rows use: on and around the hour
\* threshold and on and around the day threshold of the first clock values
DueTimes == {HourWindow, 2 * HourWindow, DayWindow, DayWindow + 1}
Titles == {"", "t"}
Emails == {"", "u"}
DueFormats == {"missing", "minute", "iso", "bad"}

VARIABLES
    now,          \* the wall clock, datetime.now()
    DEFAULT_TO,   \* EMAIL_TO of the environment, "" when unset
    EMAIL_CRED,   \* TRUE iff EMAIL_USER and EMAIL_PASS are both set
    tasks,        \* the committed rows of table task, in id order
    pc,           \* per scanner thread: position inside check_deadlines
    scanNow,      \* per scanner: the local `now` of the running scan
    batch,        \* per scanner: rows of tasks_day / tasks_hour not yet visited
    staged,       \* per scanner: flag writes pending in the session
    snapshot,     \* per scanner: the table as it was when the scan started
    queryFailed,  \* per scanner: kinds whose query raised in the current or last scan
    log,          \* per scanner: send_email calls of the current or last scan
    commitResult, \* per scanner: outcome of the last db.session.commit()
    delivered,    \* per <<id, kind>>: how often send_email has returned True
    unsent,       \* <<id, kind>> whose latest send_email returned False
    faults,       \* failures injected so far (sends, emits, queries, commits)
    mail,         \* one call of send_email observed call by call: its environment, result
    request       \* the latest POST /add that was observed: its form and its response

vars == <<now, DEFAULT_TO, EMAIL_CRED, tasks, pc, scanNow, batch, staged, snapshot,
          queryFailed, log, commitResult, delivered, unsent, faults, mail, request>>

\* ------------------------------------------------------------ Task rows
\* request.form.get('notify_email') or None: SQL NULL is written NoEmail
NoEmail == "None"

Row(id, title, description, due, status, email, f1day, f1hour) ==
    [id |-> id, title |-> title, description |-> description,
     due_date |-> due, status |-> status, notify_email |-> email,
     notified_1day |-> f1day, notified_1hour |-> f1hour]

Ids == 1..Len(tasks)

Pair(t, k) == <<t, k>>

\* Task.notify_recipient: self.notify_email or DEFAULT_TO
notify_recipient(row) ==
    IF row.notify_email # NoEmail /\ row.notify_email # ""
    THEN row.notify_email
    ELSE DEFAULT_TO

\* the column a reminder kind reads and writes
Flag(row, k) == IF k = "1 day" THEN row.notified_1day ELSE row.notified_1hour

\* the hour query filtering on day_threshold as well
Threshold_DayForBoth(nw, k) == nw + DayWindow

\* day_threshold = now + timedelta(days=1), hour_threshold = now + timedelta(hours=1)
Threshold(nw, k) == IF k = "1 day" THEN nw + DayWindow ELSE nw + HourWindow

\* every session reading the pending flag writes of every other session
SessionFlag_SharedSession(s, t, k) ==
    Flag(tasks[t], k) \/ \E o \in Scanners : Pair(t, k) \in staged[o]

\* a session that reads a row as notified as soon as any flag write on it is pending
SessionFlag_AnyPending(s, t, k) ==
    Flag(tasks[t], k) \/ \E k2 \in Kinds : Pair(t, k2) \in staged[s]

\* the row as the session of scanner s reads it: committed value or own pending write
SessionFlag(s, t, k) == Flag(tasks[t], k) \/ Pair(t, k) \in staged[s]

\* Matches with due_date >= now in place of due_date > now
Matches_DueNotBefore(row, flag, nw, k) ==
    /\ row.status = "Pending"
    /\ row.due_date <= Threshold(nw, k)
    /\ row.due_date >= nw
    /\ flag = FALSE

\* Matches with due_date < threshold in place of due_date <= threshold
Matches_ExclusiveUpper(row, flag, nw, k) ==
    /\ row.status = "Pending"
    /\ row.due_date < Threshold(nw, k)
    /\ row.due_date > nw
    /\ flag = FALSE

\* Matches without the notified_k == False criterion
Matches_NoFlag(row, flag, nw, k) ==
    /\ row.status = "Pending"
    /\ row.due_date <= Threshold(nw, k)
    /\ row.due_date > nw

\* Matches without the status == 'Pending' criterion
Matches_NoStatus(row, flag, nw, k) ==
    /\ row.due_date <= Threshold(nw, k)
    /\ row.due_date > nw
    /\ flag = FALSE

\* the filter of Task.query.filter(...) for one row
Matches(row, flag, nw, k) ==
    /\ row.status = "Pending"
    /\ row.due_date <= Threshold(nw, k)
    /\ row.due_date > nw
    /\ flag = FALSE

\* the rows a query of kind k returns to scanner s
Select(s, k) == {t \in Ids : Matches(tasks[t], SessionFlag(s, t, k), scanNow[s], k)}

\* .all() without ORDER BY: the rows come back in an order the database picks
Orders(S) ==
    {q \in [1..Cardinality(S) -> S] : \A i, j \in 1..Cardinality(S) : q[i] = q[j] => i = j}

\* values of EMAIL_USER, EMAIL_PASS ("" when unset) and EMAIL_PORT
Users == {"", "user"}
Passwords == {"", "pass"}
Ports == {465, 587, 25, 2525}

\* the calls of the try block of send_email, in order: building the message, opening the
\* session (SMTP_SSL for port 465, else SMTP and ehlo, with starttls and a second ehlo
\* for ports 587 and 25), login, send_message, and the QUIT that leaving `with` sends
SmtpScript(port) ==
    IF port = 465
    THEN <<"EmailMessage", "SMTP_SSL", "login", "send_message", "quit">>
    ELSE IF port \in {587, 25}
    THEN <<"EmailMessage", "SMTP", "ehlo", "starttls", "ehlo", "login", "send_message",
           "quit">>
    ELSE <<"EmailMessage", "SMTP", "ehlo", "login", "send_message", "quit">>

\* which call of the script raises: 0 for none
FailPoints == 0..Len(SmtpScript(587))

\* the guard with `and` in place of `or`
CredsUnset_Both(user, pass) == user = "" /\ pass = ""

\* `if not EMAIL_USER or not EMAIL_PASS`
CredsUnset(user, pass) == user = "" \/ pass = ""

\* the calls `try:` ... `except Exception` encloses: all of the script
TryBlock(script) == 1..Len(script)

\* one call of send_email in which call number failAt of the script raises: what it
\* returns, whether the exception leaves send_email, and the calls that completed
SendEmailRun(user, pass, port, failAt) ==
    IF CredsUnset(user, pass)
    THEN [ret |-> FALSE, raised |-> FALSE, calls |-> <<>>]
    ELSE LET script == SmtpScript(port)
         IN IF failAt \in 1..Len(script)
            THEN [ret |-> FALSE,
                  raised |-> failAt \notin TryBlock(script),
                  calls |-> SubSeq(script, 1, failAt - 1)]
            ELSE [ret |-> TRUE, raised |-> FALSE, calls |-> script]

\* send_email: False when the credentials are unset, else the transport's outcome
send_email(transport) == IF ~EMAIL_CRED THEN FALSE ELSE transport

\* an assignment that sets both flags of the row
SetFlag_Both(row, k) == [row EXCEPT !.notified_1day = TRUE, !.notified_1hour = TRUE]

\* task.notified_1day = True / task.notified_1hour = True on a row
SetFlag(row, k) ==
    IF k = "1 day" THEN [row EXCEPT !.notified_1day = TRUE]
    ELSE [row EXCEPT !.notified_1hour = TRUE]

RECURSIVE ApplyKinds(_, _)
ApplyKinds(row, ks) ==
    IF ks = {} THEN row
    ELSE LET k == CHOOSE x \in ks : TRUE IN ApplyKinds(SetFlag(row, k), ks \ {k})

\* a commit that writes both flag columns of every row from the pending set
Persist_Overwrite(rows, writes) ==
    [t \in 1..Len(rows) |->
        [rows[t] EXCEPT !.notified_1day = Pair(t, "1 day") \in writes,
                        !.notified_1hour = Pair(t, "1 hour") \in writes]]

\* db.session.commit(): every pending flag write of the session reaches the table
Persist(rows, writes) ==
    [t \in 1..Len(rows) |-> ApplyKinds(rows[t], {k \in Kinds : Pair(t, k) \in writes})]

\* a failed commit that keeps the writes on the first row it flushed
CommitOutcome_Partial(rows, writes, cok) ==
    IF cok THEN Persist(rows, writes)
    ELSE Persist(rows, {w \in writes : \A v \in writes : w[1] <= v[1]})

\* a failed commit whose writes reach the table all the same
CommitOutcome_NoRollback(rows, writes, cok) == Persist(rows, writes)

\* try: db.session.commit()  except: db.session.rollback()
CommitOutcome(rows, writes, cok) == IF cok THEN Persist(rows, writes) ELSE rows

\* the loop without its `if not recipient: continue`
HasRecipient_Always(recipient) == TRUE

\* `if not recipient: continue`
HasRecipient(recipient) == recipient # "" /\ recipient # NoEmail

\* the flag write made whatever send_email returned
StageFlag_Always(writes, t, k, ok) == writes \cup {Pair(t, k)}

\* `if send_email(...): task.notified_k = True; db.session.add(task)`
StageFlag(writes, t, k, ok) == IF ok THEN writes \cup {Pair(t, k)} ELSE writes

\* no send_email call is being observed, no request has been observed
NoMail == [phase |-> "none"]
NoRequest == [code |-> 0]

\* ------------------------------------------------------------ initial state
\* db.create_all() keeps an existing table: the store starts empty or with a row
\* left by an earlier run of the program
InitRows ==
    {Row(1, "t", "", d, st, e, a, b) :
        d \in DueTimes, st \in Statuses, e \in {NoEmail, "u"}, a \in BOOLEAN, b \in BOOLEAN}

\* a call of send_email about to be made, in some environment
MailCalls ==
    {[phase |-> "called", user |-> u, pass |-> pw, port |-> pt, failAt |-> f,
      result |-> [ret |-> FALSE, raised |-> FALSE, calls |-> <<>>]] :
        u \in Users, pw \in Passwords, pt \in Ports, f \in FailPoints}

Init ==
    /\ now = 0
    /\ DEFAULT_TO \in {"", "d"}
    /\ EMAIL_CRED \in BOOLEAN
    /\ tasks \in {<<>>} \cup {<<r>> : r \in InitRows}
    /\ pc = [s \in Scanners |-> "idle"]
    /\ scanNow = [s \in Scanners |-> 0]
    /\ batch = [s \in Scanners |-> <<>>]
    /\ staged = [s \in Scanners |-> {}]
    /\ snapshot = [s \in Scanners |-> <<>>]
    /\ queryFailed = [s \in Scanners |-> {}]
    /\ log = [s \in Scanners |-> <<>>]
    /\ commitResult = [s \in Scanners |-> "none"]
    /\ delivered = [p \in (1..MaxTasks) \X Kinds |-> 0]
    /\ unsent = {}
    /\ faults = 0
    /\ mail = NoMail
    /\ request = NoRequest

\* ------------------------------------------------------------ clock
Tick ==
    /\ now < MaxNow
    /\ now' = now + 1
    /\ UNCHANGED <<mail, request, DEFAULT_TO, EMAIL_CRED, tasks, pc, scanNow, batch, staged, snapshot,
                   queryFailed, log, commitResult, delivered, unsent, faults>>

\* ------------------------------------------------------------ add_task
\* the instant a date-only string denotes: midnight of that day
Midnight(d) == (d \div DayWindow) * DayWindow

\* due_raw is written as its shape and the instant d its digits denote: "minute" is
\* YYYY-MM-DDTHH:MM, "iso" is the same with seconds, "date" is YYYY-MM-DD, "bad" is any
\* other text, "missing" is an absent or empty field.
\* datetime.strptime(due_raw, '%Y-%m-%dT%H:%M') takes "minute" only; datetime.fromisoformat
\* takes "iso" and "date" as well and reads a date as its midnight
ParseDue(fmt, d) ==
    IF fmt = "minute" THEN [ok |-> TRUE, due |-> d]
    ELSE IF fmt = "iso" THEN [ok |-> TRUE, due |-> d]
    ELSE IF fmt = "date" THEN [ok |-> TRUE, due |-> Midnight(d)]
    ELSE [ok |-> FALSE, due |-> 0]

\* the checks of add_task without `not title`
Validate_NoTitleCheck(title, fmt, d) ==
    IF fmt = "missing" THEN "missing"
    ELSE IF ~ParseDue(fmt, d).ok THEN "invalid"
    ELSE "ok"

\* `if not title or not due_raw`, then the two parse attempts
Validate(title, fmt, d) ==
    IF title = "" \/ fmt = "missing" THEN "missing"
    ELSE IF ~ParseDue(fmt, d).ok THEN "invalid"
    ELSE "ok"

\* the response of add_task and the send_email calls it made: 400 for a rejected form,
\* else the redirect to index after the optional confirmation email
Response(title, fmt, d, email, transport) ==
    IF Validate(title, fmt, d) # "ok"
    THEN [code |-> 400, title |-> title, fmt |-> fmt, email |-> email, mails |-> <<>>]
    ELSE [code |-> 302, title |-> title, fmt |-> fmt, email |-> email,
          mails |-> IF email # ""
                    THEN <<[to |-> email, ok |-> send_email(transport)]>>
                    ELSE <<>>]

\* what add_task does to the store; the confirmation email changes no row
AddTaskBody(title, description, fmt, d, email) ==
    /\ Len(tasks) < MaxTasks
    /\ IF Validate(title, fmt, d) # "ok"
       THEN UNCHANGED tasks
       ELSE tasks' = Append(tasks,
                Row(Len(tasks) + 1, title, description, ParseDue(fmt, d).due, "Pending",
                    IF email = "" THEN NoEmail ELSE email, FALSE, FALSE))
    /\ UNCHANGED <<mail, now, DEFAULT_TO, EMAIL_CRED, pc, scanNow, batch, staged, snapshot,
                   queryFailed, log, commitResult, delivered, unsent, faults>>

AddTask(title, description, fmt, d, email) ==
    /\ AddTaskBody(title, description, fmt, d, email)
    /\ UNCHANGED request

\* add_task with its response and its send_email calls observed
AddTaskObserved(title, description, fmt, d, email) ==
    /\ AddTaskBody(title, description, fmt, d, email)
    /\ \E transport \in BOOLEAN :
        /\ ~EMAIL_CRED => transport
        /\ request' = Response(title, fmt, d, email, transport)

\* ------------------------------------------------------------ check_deadlines
NoScanInFlight == \A o \in Scanners : pc[o] = "idle"

\* check_deadlines is entered: a fresh session, now = datetime.now()
StartRun(s) ==
    /\ pc' = [pc EXCEPT ![s] = "day_query"]
    /\ scanNow' = [scanNow EXCEPT ![s] = now]
    /\ batch' = [batch EXCEPT ![s] = <<>>]
    /\ staged' = [staged EXCEPT ![s] = {}]
    /\ snapshot' = [snapshot EXCEPT ![s] = tasks]
    /\ queryFailed' = [queryFailed EXCEPT ![s] = {}]
    /\ log' = [log EXCEPT ![s] = <<>>]
    /\ commitResult' = [commitResult EXCEPT ![s] = "none"]
    /\ UNCHANGED <<mail, request, now, DEFAULT_TO, EMAIL_CRED, tasks, delivered, unsent, faults>>

\* the interval job fires: scheduler.add_job(...) keeps its default of one running
\* instance, so a run starts only when none is in flight; it opens a fresh session
\* and reads now = datetime.now()
StartScan(s) ==
    /\ NoScanInFlight
    /\ s = 1
    /\ StartRun(s)

\* AfterQuery where the loop over the returned tasks is never entered
AfterQuery_SkipLoop(qok, rows, loop, next) == next

\* AfterQuery where the exception of a failed query leaves check_deadlines
AfterQuery_AbortOnError(qok, rows, loop, next) ==
    IF ~qok THEN "idle" ELSE IF rows = <<>> THEN next ELSE loop

\* where control goes after the try/except around a query: into `for task in tasks_k`,
\* which falls through to the next statement when tasks_k is empty
AfterQuery(qok, rows, loop, next) ==
    IF rows = <<>> THEN next ELSE loop

\* try: tasks_k = Task.query.filter(...).all()  except: tasks_k = []
Query(s, k, here, loop, next) ==
    /\ pc[s] = here
    /\ \E qok \in BOOLEAN :
        /\ ~qok => faults < MaxFaults
        /\ faults' = IF qok THEN faults ELSE faults + 1
        /\ queryFailed' = [queryFailed EXCEPT ![s] = IF qok THEN @ ELSE @ \cup {k}]
        /\ \E rows \in (IF qok THEN Orders(Select(s, k)) ELSE {<<>>}) :
            /\ batch' = [batch EXCEPT ![s] = rows]
            /\ pc' = [pc EXCEPT ![s] = AfterQuery(qok, rows, loop, next)]
    /\ UNCHANGED <<mail, request, now, DEFAULT_TO, EMAIL_CRED, tasks, scanNow, staged, snapshot, log,
                   commitResult, delivered, unsent>>

\* both loops emitting 'when': '1 day'
Alert_DayForBoth(row, k, emitted) ==
    [title |-> row.title, due |-> row.due_date, when |-> "1 day", emitted |-> emitted]

\* the payload of socketio.emit('deadline_alert', ...)
Alert(row, k, emitted) ==
    [title |-> row.title, due |-> row.due_date, when |-> k, emitted |-> emitted]

\* one iteration of `for task in tasks_k`
Visit(s, k, loop, next) ==
    /\ pc[s] = loop
    /\ batch[s] # <<>>
    /\ LET t == Head(batch[s])
           row == tasks[t]
           recipient == notify_recipient(row)
           rest == Tail(batch[s])
       IN /\ batch' = [batch EXCEPT ![s] = rest]
          /\ pc' = [pc EXCEPT ![s] = IF rest = <<>> THEN next ELSE loop]
          /\ IF ~HasRecipient(recipient)
             THEN UNCHANGED <<staged, log, delivered, unsent, faults>>
             ELSE \E transport \in BOOLEAN, emitted \in BOOLEAN :
                    LET ok == send_email(transport)
                        cost == (IF EMAIL_CRED /\ ~transport THEN 1 ELSE 0)
                                + (IF ok /\ ~emitted THEN 1 ELSE 0)
                    IN /\ ~EMAIL_CRED => transport
                       /\ ~ok => emitted
                       /\ faults + cost <= MaxFaults
                       /\ faults' = faults + cost
                       /\ log' = [log EXCEPT ![s] = Append(@,
                                    [task |-> t, kind |-> k, to |-> recipient, ok |-> ok,
                                     alert |-> IF ok THEN <<Alert(row, k, emitted)>>
                                               ELSE <<>>])]
                       /\ staged' = [staged EXCEPT ![s] = StageFlag(@, t, k, ok)]
                       /\ delivered' = IF ok
                                       THEN [delivered EXCEPT ![Pair(t, k)] = @ + 1]
                                       ELSE delivered
                       /\ unsent' = IF ok THEN unsent \ {Pair(t, k)}
                                    ELSE unsent \cup {Pair(t, k)}
    /\ UNCHANGED <<mail, request, now, DEFAULT_TO, EMAIL_CRED, tasks, scanNow, snapshot, queryFailed,
                   commitResult>>

DayQuery(s) == Query(s, "1 day", "day_query", "day_loop", "hour_query")
DayVisit(s) == Visit(s, "1 day", "day_loop", "hour_query")
HourQuery(s) == Query(s, "1 hour", "hour_query", "hour_loop", "commit")
HourVisit(s) == Visit(s, "1 hour", "hour_loop", "commit")

\* the commit that ends the scan; the session is discarded with the app context
Commit(s) ==
    /\ pc[s] = "commit"
    /\ \E cok \in BOOLEAN :
        /\ ~cok => faults < MaxFaults
        /\ faults' = IF cok THEN faults ELSE faults + 1
        /\ tasks' = CommitOutcome(tasks, staged[s], cok)
        /\ commitResult' = [commitResult EXCEPT ![s] = IF cok THEN "ok" ELSE "failed"]
    /\ staged' = [staged EXCEPT ![s] = {}]
    /\ pc' = [pc EXCEPT ![s] = "idle"]
    /\ UNCHANGED <<mail, request, now, DEFAULT_TO, EMAIL_CRED, scanNow, batch, snapshot, queryFailed,
                   log, delivered, unsent>>

\* any one step of the execution of check_deadlines by scanner s
ScanStep(s) == DayQuery(s) \/ DayVisit(s) \/ HourQuery(s) \/ HourVisit(s) \/ Commit(s)

AddTaskRequest ==
    \E title \in Titles, fmt \in DueFormats, d \in DueTimes, email \in Emails :
        AddTask(title, "", fmt, d, email)

Next ==
    \/ Tick
    \/ AddTaskRequest
    \/ \E s \in Scanners : StartScan(s)
    \/ \E s \in Scanners : DayQuery(s)
    \/ \E s \in Scanners : DayVisit(s)
    \/ \E s \in Scanners : HourQuery(s)
    \/ \E s \in Scanners : HourVisit(s)
    \/ \E s \in Scanners : Commit(s)

Spec == Init /\ [][Next]_vars

\* `python app.py` with socketio.run(app, debug=True): the reloader runs the script a
\* second time in a child process, so the __main__ block starts one BackgroundScheduler
\* in the parent and one in the child, both on the same database. Scanner s is the job
\* thread of process s; each scheduler holds back only its own job while it runs. The
\* rows of the store are those earlier requests left there.
JobFires(s) ==
    /\ pc[s] = "idle"
    /\ StartRun(s)

NextOverlap ==
    \/ Tick
    \/ \E s \in Scanners : JobFires(s)
    \/ \E s \in Scanners : DayQuery(s)
    \/ \E s \in Scanners : DayVisit(s)
    \/ \E s \in Scanners : HourQuery(s)
    \/ \E s \in Scanners : HourVisit(s)
    \/ \E s \in Scanners : Commit(s)

SpecOverlap == Init /\ [][NextOverlap]_vars

\* the setting of a reminder that is due: the SMTP credentials are configured and the
\* store holds a Pending task that has not been notified
InitLive ==
    /\ Init
    /\ EMAIL_CRED
    /\ tasks # <<>>
    /\ tasks[1].status = "Pending"
    /\ ~tasks[1].notified_1day /\ ~tasks[1].notified_1hour

\* ------------------------------------------------------------ send_email alone
InitMail ==
    /\ now = 0
    /\ DEFAULT_TO = ""
    /\ tasks = <<>>
    /\ pc = [s \in Scanners |-> "idle"]
    /\ scanNow = [s \in Scanners |-> 0]
    /\ batch = [s \in Scanners |-> <<>>]
    /\ staged = [s \in Scanners |-> {}]
    /\ snapshot = [s \in Scanners |-> <<>>]
    /\ queryFailed = [s \in Scanners |-> {}]
    /\ log = [s \in Scanners |-> <<>>]
    /\ commitResult = [s \in Scanners |-> "none"]
    /\ delivered = [p \in (1..MaxTasks) \X Kinds |-> 0]
    /\ unsent = {}
    /\ faults = 0
    /\ request = NoRequest
    /\ mail \in MailCalls
    /\ EMAIL_CRED = (mail.user # "" /\ mail.pass # "")

\* send_email(to_address, subject, body) runs and returns
SendEmailReturns ==
    /\ mail.phase = "called"
    /\ mail' = [mail EXCEPT !.phase = "returned",
                            !.result = SendEmailRun(mail.user, mail.pass, mail.port,
                                                    mail.failAt)]
    /\ UNCHANGED <<now, DEFAULT_TO, EMAIL_CRED, tasks, pc, scanNow, batch, staged,
                   snapshot, queryFailed, log, commitResult, delivered, unsent, faults,
                   request>>

NextMail == SendEmailReturns

SpecMail == InitMail /\ [][NextMail]_vars

\* the job thread that entered check_deadlines keeps executing it
SpecLive == InitLive /\ [][Next]_vars /\ \A s \in Scanners : WF_vars(ScanStep(s))

\* ------------------------------------------------------------ requests observed
\* the shapes of due_raw a form can carry
FormFormats == DueFormats \cup {"date"}

FormRequest ==
    \E title \in Titles, fmt \in FormFormats, d \in DueTimes, email \in Emails :
        AddTaskObserved(title, "", fmt, d, email)

\* the program with the store empty at start, a fallback recipient configured and
\* every POST /add observed
InitForm ==
    /\ Init
    /\ tasks = <<>>
    /\ DEFAULT_TO = "d"

NextForm ==
    \/ Tick
    \/ FormRequest
    \/ \E s \in Scanners : StartScan(s)
    \/ \E s \in Scanners : DayQuery(s)
    \/ \E s \in Scanners : DayVisit(s)
    \/ \E s \in Scanners : HourQuery(s)
    \/ \E s \in Scanners : HourVisit(s)
    \/ \E s \in Scanners : Commit(s)

SpecForm == InitForm /\ [][NextForm]_vars

TypeOK ==
    /\ now \in 0..MaxNow
    /\ Len(tasks) <= MaxTasks
    /\ \A t \in Ids : tasks[t].id = t
    /\ faults \in 0..MaxFaults

\* ------------------------------------------------------------ vocabulary of the properties
\* a scan of scanner s has run to its end
ScanDone(s) == pc[s] = "idle" /\ commitResult[s] # "none"

\* positions in the log of scanner s of the send_email calls for task t and kind k
Entries(s, t, k) == {i \in DOMAIN log[s] : log[s][i].task = t /\ log[s][i].kind = k}
OkEntries(s, t, k) == {i \in Entries(s, t, k) : log[s][i].ok}

\* now < due <= now + 24h (day) or now + 1h (hour), written out in 30-minute units
InWindow(due, nw, k) ==
    /\ nw < due
    /\ IF k = "1 day" THEN due <= nw + 48 ELSE due <= nw + 2

\* the recipient check as the data model states it
NoRecipient(row) == row.notify_email \in {NoEmail, ""} /\ DEFAULT_TO = ""

LoopOf(k) == IF k = "1 day" THEN "day_loop" ELSE "hour_loop"
QueryOf(k) == IF k = "1 day" THEN "day_query" ELSE "hour_query"
Range(q) == {q[i] : i \in DOMAIN q}

\* the rows that existed when the scan of s started
Known(s) == 1..Len(snapshot[s])

\* ------------------------------------------------------------ C1
\* C1 as claimed: over serialized scans with non-decreasing now, send_email returns
\* True for a (task, threshold) reminder at most once across all scans.
C1_AtMostOnceAcrossScans ==
    \A p \in DOMAIN delivered : delivered[p] <= 1

\* C1 as amended: within one scan send_email is called at most once per (task,
\* threshold), it is never called for a pair whose flag is already persisted true,
\* and every successful send beyond the first follows a failure (a lost commit).
C1_AtMostOncePerCommittedFlag ==
    /\ \A s \in Scanners : \A t \in Ids : \A k \in Kinds :
          /\ Cardinality(Entries(s, t, k)) <= 1
          /\ (pc[s] # "idle" /\ Entries(s, t, k) # {}) => ~Flag(tasks[t], k)
    /\ \A p \in DOMAIN delivered : delivered[p] <= 1 + faults

\* a later scan over a still eligible task whose day flag was persisted did not resend
C1_Witness ==
    \E t \in Ids :
        /\ ScanDone(1) /\ queryFailed[1] = {}
        /\ t \in Known(1) /\ snapshot[1][t].notified_1day
        /\ delivered[Pair(t, "1 day")] = 1
        /\ tasks[t].status = "Pending"
        /\ HasRecipient(notify_recipient(tasks[t]))
        /\ InWindow(tasks[t].due_date, scanNow[1], "1 day")
        /\ Entries(1, t, "1 day") = {}

\* ------------------------------------------------------------ C2
\* C2: a reminder of kind k is attempted only for a task that, at that kind's query,
\* is Pending, has now < due_date <= now + window_k and has flag_k false; a task
\* whose flag_k is already true is never in the batch of kind k.
C2_SendGuard ==
    \A s \in Scanners :
        /\ \A k \in Kinds : pc[s] = LoopOf(k) =>
              \A t \in Range(batch[s]) :
                  /\ tasks[t].status = "Pending"
                  /\ InWindow(tasks[t].due_date, scanNow[s], k)
                  /\ ~Flag(tasks[t], k)
        /\ \A i \in DOMAIN log[s] :
              LET t == log[s][i].task
                  k == log[s][i].kind
              IN /\ tasks[t].status = "Pending"
                 /\ InWindow(tasks[t].due_date, scanNow[s], k)
                 /\ t \in Known(s) => ~Flag(snapshot[s][t], k)

\* a finished scan sent a reminder and passed over a Done task inside the hour window
C2_Witness ==
    \E t \in Ids :
        /\ ScanDone(1) /\ queryFailed[1] = {} /\ log[1] # <<>>
        /\ t \in Known(1)
        /\ tasks[t].status = "Done"
        /\ ~tasks[t].notified_1day /\ ~tasks[t].notified_1hour
        /\ HasRecipient(notify_recipient(tasks[t]))
        /\ InWindow(tasks[t].due_date, scanNow[1], "1 hour")
        /\ \A k \in Kinds : Entries(1, t, k) = {}

\* ------------------------------------------------------------ C3
\* a persisted flag turns true only in the commit of a scan whose send for it succeeded
C3_FlagOnlyAfterSend ==
    \A t \in Ids : \A k \in Kinds :
        (~Flag(tasks[t], k) /\ Flag(tasks'[t], k)) =>
            \E s \in Scanners : pc[s] = "commit" /\ OkEntries(s, t, k) # {}

\* a query that succeeds selects every pair whose last send failed and that is still
\* Pending and inside the window
C3_FailedSelectedAgain ==
    \A s \in Scanners : \A k \in Kinds :
        (pc[s] = QueryOf(k) /\ pc'[s] # QueryOf(k) /\ k \notin queryFailed'[s]) =>
            \A t \in Ids :
                (/\ Pair(t, k) \in unsent
                 /\ tasks[t].status = "Pending"
                 /\ InWindow(tasks[t].due_date, scanNow[s], k))
                => t \in Range(batch'[s])

\* visiting a selected pair whose last send failed calls send_email again
C3_FailedSentAgain ==
    \A s \in Scanners : \A k \in Kinds :
        (pc[s] = LoopOf(k) /\ batch'[s] # batch[s] /\ Pair(Head(batch[s]), k) \in unsent) =>
            \E i \in DOMAIN log'[s] :
                log'[s][i].task = Head(batch[s]) /\ log'[s][i].kind = k

\* a send that returned False staged nothing and the persisted flag is still false
C3_FailedLeavesFlag ==
    \A s \in Scanners : \A i \in DOMAIN log[s] :
        ~log[s][i].ok =>
            /\ Pair(log[s][i].task, log[s][i].kind) \notin staged[s]
            /\ ~Flag(tasks[log[s][i].task], log[s][i].kind)

\* C3: a flag is set only in a scan where send_email returned True for that task and
\* threshold; a False return leaves it false, and the next scan selects the task
\* again and retries the send while the task is Pending and inside the window.
C3_FlagOnlyOnSuccess ==
    /\ [][C3_FlagOnlyAfterSend /\ C3_FailedSelectedAgain /\ C3_FailedSentAgain]_vars
    /\ []C3_FailedLeavesFlag

\* a pair whose send failed in an earlier scan heads the batch of a later scan
C3_Witness ==
    \E s \in Scanners : \E k \in Kinds :
        /\ pc[s] = LoopOf(k)
        /\ batch[s] # <<>>
        /\ Pair(Head(batch[s]), k) \in unsent
        /\ Entries(s, Head(batch[s]), k) = {}

\* ------------------------------------------------------------ C4
\* C4: in the persisted store no row disappears and a notified flag that is true
\* stays true, over creations and scans, also when a commit fails and is rolled back.
C4_FlagMonotone ==
    [][/\ Len(tasks') >= Len(tasks)
       /\ \A t \in Ids : \A k \in Kinds : Flag(tasks[t], k) => Flag(tasks'[t], k)]_vars

\* a scan that had sent a reminder lost its commit while an earlier sent flag stayed true
C4_Witness ==
    \E t \in Ids : \E k \in Kinds :
        /\ ScanDone(1) /\ commitResult[1] = "failed"
        /\ \E i \in DOMAIN log[1] : log[1][i].ok
        /\ Flag(tasks[t], k)
        /\ delivered[Pair(t, k)] >= 1

\* ------------------------------------------------------------ C5
\* Scenario B's task for a scan of s: known at the start, Pending, with a recipient,
\* both flags false and due_date = now + 2h
ScenarioB(s, t) ==
    /\ t \in Known(s)
    /\ snapshot[s][t].status = "Pending"
    /\ ~NoRecipient(snapshot[s][t])
    /\ ~snapshot[s][t].notified_1day /\ ~snapshot[s][t].notified_1hour
    /\ snapshot[s][t].due_date = scanNow[s] + 4

\* C5 as claimed: for Scenario B's task one scan sends no reminder (no send_email
\* call for it returns True) and both flags remain false.
C5_ScenarioB_NoReminder ==
    \A s \in Scanners : \A t \in Ids :
        (ScanDone(s) /\ ScenarioB(s, t)) =>
            /\ \A k \in Kinds : OkEntries(s, t, k) = {}
            /\ ~tasks[t].notified_1day /\ ~tasks[t].notified_1hour

\* C5 as amended: for Scenario B's task one scan sends no 1-hour reminder and
\* notified_1hour remains false, but the task is inside the 24h window: unless the
\* day query fails the scan calls send_email once for the 1-day reminder, and
\* notified_1day is true afterwards exactly when that send and the commit succeeded.
C5_ScenarioB_DayOnly ==
    \A s \in Scanners : \A t \in Ids :
        (ScanDone(s) /\ ScenarioB(s, t)) =>
            /\ Entries(s, t, "1 hour") = {}
            /\ ~tasks[t].notified_1hour
            /\ "1 day" \notin queryFailed[s] => Cardinality(Entries(s, t, "1 day")) = 1
            /\ tasks[t].notified_1day <=>
                  (OkEntries(s, t, "1 day") # {} /\ commitResult[s] = "ok")

\* a finished scan that sent Scenario B's task its 1-day reminder and set the flag
C5_Witness ==
    \E t \in Ids :
        /\ ScanDone(1) /\ ScenarioB(1, t)
        /\ OkEntries(1, t, "1 day") # {}
        /\ tasks[t].notified_1day /\ ~tasks[t].notified_1hour

\* ------------------------------------------------------------ C6
\* Scenario A's task for a scan of s: known at the start, Pending, with a recipient,
\* both flags false and now < due_date <= now + 1h
ScenarioA(s, t) ==
    /\ t \in Known(s)
    /\ snapshot[s][t].status = "Pending"
    /\ ~NoRecipient(snapshot[s][t])
    /\ ~snapshot[s][t].notified_1day /\ ~snapshot[s][t].notified_1hour
    /\ InWindow(snapshot[s][t].due_date, scanNow[s], "1 hour")

\* the send_email calls of the scan of s for task t, by position in the log
CallsFor(s, t) == {i \in DOMAIN log[s] : log[s][i].task = t}

\* C6: for Scenario A's task a scan whose queries, sends and commit succeed makes
\* exactly two sends for it, the 1-day reminder before the 1-hour reminder, and
\* leaves notified_1day and notified_1hour both true.
C6_ScenarioA_BothInOneScan ==
    \A s \in Scanners : \A t \in Ids :
        (/\ ScanDone(s) /\ ScenarioA(s, t)
         /\ commitResult[s] = "ok" /\ queryFailed[s] = {}
         /\ \A i \in CallsFor(s, t) : log[s][i].ok)
        => /\ Cardinality(CallsFor(s, t)) = 2
           /\ \E i, j \in CallsFor(s, t) :
                 i < j /\ log[s][i].kind = "1 day" /\ log[s][j].kind = "1 hour"
           /\ tasks[t].notified_1day /\ tasks[t].notified_1hour

\* a finished scan that sent Scenario A's task both reminders
C6_Witness ==
    \E t \in Ids :
        /\ ScanDone(1) /\ ScenarioA(1, t)
        /\ commitResult[1] = "ok" /\ queryFailed[1] = {}
        /\ Cardinality(CallsFor(1, t)) = 2
        /\ \A i \in CallsFor(1, t) : log[1][i].ok
        /\ tasks[t].notified_1day /\ tasks[t].notified_1hour

\* ------------------------------------------------------------ C7
\* the tasks a finished scan of s sent a reminder to without the flag being persisted
SentUnflagged(s) ==
    {t \in Ids : \E k \in Kinds : OkEntries(s, t, k) # {} /\ ~Flag(tasks[t], k)}

Lost(t, k) ==
    /\ delivered[Pair(t, k)] >= 1
    /\ ~Flag(tasks[t], k)
    /\ \A s \in Scanners : Pair(t, k) \notin staged[s]

\* no step takes a sent reminder back
C8_SentStaysSent == \A p \in DOMAIN delivered : delivered'[p] >= delivered[p]

\* a query that succeeds selects every lost pair that is still Pending and in its window
C8_LostSelectedAgain ==
    \A s \in Scanners : \A k \in Kinds :
        (pc[s] = QueryOf(k) /\ pc'[s] # QueryOf(k) /\ k \notin queryFailed'[s]) =>
            \A t \in Ids :
                (/\ Lost(t, k)
                 /\ tasks[t].status = "Pending"
                 /\ InWindow(tasks[t].due_date, scanNow[s], k))
                => t \in Range(batch'[s])

\* visiting a selected lost pair calls send_email for it again
C8_LostSentAgain ==
    \A s \in Scanners : \A k \in Kinds :
        (pc[s] = LoopOf(k) /\ batch'[s] # batch[s] /\ Lost(Head(batch[s]), k)) =>
            \E i \in DOMAIN log'[s] :
                log'[s][i].task = Head(batch[s]) /\ log'[s][i].kind = k

\* after a failed commit the flags of the reminders the scan sent read false
C8_FailedCommitLosesFlags ==
    \A s \in Scanners : (ScanDone(s) /\ commitResult[s] = "failed") =>
        \A i \in DOMAIN log[s] :
            log[s][i].ok =>
                /\ ~Flag(tasks[log[s][i].task], log[s][i].kind)
                /\ delivered[Pair(log[s][i].task, log[s][i].kind)] >= 1

\* C8: when the commit of a scan fails, the reminders it sent stay sent, the flags it
\* staged read false afterwards, and the next scan selects each such task that is
\* still Pending and in its window and calls send_email for it again.
C8_AtLeastOnceOnCommitFailure ==
    /\ [][C8_SentStaysSent /\ C8_LostSelectedAgain /\ C8_LostSentAgain]_vars
    /\ []C8_FailedCommitLosesFlags

\* a reminder was sent a second time after the commit of its first scan failed
C8_Witness ==
    \E t \in Ids : \E k \in Kinds :
        /\ delivered[Pair(t, k)] = 2
        /\ OkEntries(1, t, k) # {}

\* ------------------------------------------------------------ C9
\* a task without recipient is in no send_email call, has no alert and no flag write
C9_NeverSent ==
    \A t \in Ids : NoRecipient(tasks[t]) =>
        \A k \in Kinds :
            /\ delivered[Pair(t, k)] = 0
            /\ \A s \in Scanners : Entries(s, t, k) = {} /\ Pair(t, k) \notin staged[s]

\* the row of a task without recipient never changes
C9_NeverFlagged == \A t \in Ids : NoRecipient(tasks[t]) => tasks'[t] = tasks[t]

\* C9: a task with no notify_email while DEFAULT_TO is empty is, over any number of
\* scans, never passed to send_email, never gets a flag set and never causes a
\* deadline_alert.
C9_MissingRecipientSkip == []C9_NeverSent /\ [][C9_NeverFlagged]_vars

\* a finished scan passed over an eligible task that has no recipient
C9_Witness ==
    \E t \in Ids :
        /\ ScanDone(1) /\ queryFailed[1] = {} /\ commitResult[1] = "ok"
        /\ t \in Known(1)
        /\ NoRecipient(tasks[t])
        /\ tasks[t].status = "Pending"
        /\ InWindow(tasks[t].due_date, scanNow[1], "1 hour")
        /\ ~tasks[t].notified_1day /\ ~tasks[t].notified_1hour

\* ------------------------------------------------------------ C10
\* no batch and no send_email call of a scan holds a task due at or before its `now`
C10_NeverSelected ==
    \A s \in Scanners :
        /\ \A t \in Range(batch[s]) : tasks[t].due_date > scanNow[s]
        /\ \A i \in DOMAIN log[s] : tasks[log[s][i].task].due_date > scanNow[s]

\* the commit of a scan changes no row due at or before the scan's `now`
C10_NeverFlagged ==
    \A s \in Scanners : (pc[s] = "commit" /\ pc'[s] = "idle") =>
        \A t \in Ids : tasks[t].due_date <= scanNow[s] => tasks'[t] = tasks[t]

\* C10: a task with due_date <= now is selected by neither query, so once its due time
\* has passed with a flag still false no later scan sends that reminder or sets it.
C10_PastDueExclusion == []C10_NeverSelected /\ [][C10_NeverFlagged]_vars

\* a finished scan passed over a task whose send had failed and whose due time passed
C10_Witness ==
    \E t \in Ids : \E k \in Kinds :
        /\ ScanDone(1) /\ queryFailed[1] = {}
        /\ t \in Known(1)
        /\ Pair(t, k) \in unsent
        /\ tasks[t].status = "Pending" /\ ~Flag(tasks[t], k)
        /\ tasks[t].due_date <= scanNow[1]
        /\ Entries(1, t, k) = {}

\* ------------------------------------------------------------ C11
\* a task of the scan of s that was Pending with both flags false when the scan started
Unnotified(s, t) ==
    /\ t \in Known(s)
    /\ snapshot[s][t].status = "Pending"
    /\ ~snapshot[s][t].notified_1day /\ ~snapshot[s][t].notified_1hour

\* the step is the query of kind k of scanner s and the query did not raise
QueryAnswered(s, k) ==
    pc[s] = QueryOf(k) /\ pc'[s] # QueryOf(k) /\ k \notin queryFailed'[s]

\* a query of kind k returns such a task exactly when now < due_date <= now + window_k
C11_SelectedIffInWindow ==
    \A s \in Scanners : \A k \in Kinds :
        QueryAnswered(s, k) =>
            \A t \in Ids : Unnotified(s, t) =>
                (t \in Range(batch'[s]) <=> InWindow(tasks[t].due_date, scanNow[s], k))

\* the cases the claim names, in 30-minute units: +23h = 46, +30m = 1, +24h = 48,
\* +1h = 2, now = 0
C11_NamedCases ==
    \A s \in Scanners : \A k \in Kinds :
        QueryAnswered(s, k) =>
            \A t \in Ids : Unnotified(s, t) =>
                LET ahead == tasks[t].due_date - scanNow[s]
                    in == t \in Range(batch'[s])
                IN /\ ahead = 46 => (in <=> k = "1 day")
                   /\ ahead = 1 => in
                   /\ ahead = 48 => (in <=> k = "1 day")
                   /\ ahead = 2 => in
                   /\ ahead = 0 => ~in

\* C11: for a Pending task with both flags false, due_date = now + 23h is selected by
\* the day query and not by the hour query, due_date = now + 30m by both; the upper
\* bounds are inclusive (now + 24h is in the day window, now + 1h in the hour window)
\* and the lower bound is exclusive (due_date = now is in neither).
C11_WindowCorrectness == [][C11_SelectedIffInWindow /\ C11_NamedCases]_vars

\* the hour query of a scan has just returned a task due in 1h and left out a task due
\* in 23h that the day query had returned
C11_Witness ==
    \E t, u \in Ids :
        /\ pc[1] = "hour_loop" /\ queryFailed[1] = {}
        /\ Unnotified(1, t) /\ Unnotified(1, u)
        /\ tasks[t].due_date = scanNow[1] + 46
        /\ tasks[u].due_date = scanNow[1] + 2
        /\ Entries(1, t, "1 day") # {} /\ Entries(1, u, "1 day") # {}
        /\ u \in Range(batch[1]) /\ t \notin Range(batch[1])

\* ------------------------------------------------------------ C12
\* the statement after the query of kind k and its loop
AfterLoop(k) == IF k = "1 day" THEN "hour_query" ELSE "commit"

\* the control flow of check_deadlines: day query, day loop, hour query, hour loop, commit
Forward ==
    {<<"idle", "day_query">>, <<"day_query", "day_loop">>, <<"day_query", "hour_query">>,
     <<"day_loop", "hour_query">>, <<"hour_query", "hour_loop">>,
     <<"hour_query", "commit">>, <<"hour_loop", "commit">>, <<"commit", "idle">>}

\* a running scan can always take its next step, whatever failed before
C12_NeverStuck == \A s \in Scanners : pc[s] # "idle" => ENABLED ScanStep(s)

\* a loop is only entered with tasks to process
C12_LoopHasWork ==
    \A s \in Scanners : pc[s] \in {"day_loop", "hour_loop"} => batch[s] # <<>>

\* control only moves forward through the scan and leaves it only through the commit
C12_ForwardOnly ==
    \A s \in Scanners : pc'[s] # pc[s] => <<pc[s], pc'[s]>> \in Forward

\* a failed query empties only its own batch and control goes on to the next statement
C12_FailedQueryDegrades ==
    \A s \in Scanners : \A k \in Kinds :
        (k \in queryFailed'[s] /\ k \notin queryFailed[s]) =>
            /\ pc[s] = QueryOf(k) /\ pc'[s] = AfterLoop(k)
            /\ batch'[s] = <<>>
            /\ staged'[s] = staged[s] /\ log'[s] = log[s] /\ tasks' = tasks

\* an iteration consumes exactly the head of the batch, whatever send_email and
\* socketio.emit did, and the loop goes on while tasks remain
C12_RestStillProcessed ==
    \A s \in Scanners : \A k \in Kinds :
        (pc[s] = LoopOf(k) /\ batch'[s] # batch[s]) =>
            /\ batch'[s] = Tail(batch[s])
            /\ pc'[s] = IF Tail(batch[s]) = <<>> THEN AfterLoop(k) ELSE LoopOf(k)

\* C12: a scan always runs to completion: a failure of the day query, of the hour query,
\* of a send_email call or of a socketio.emit call never aborts check_deadlines; a failed
\* query only empties that threshold's batch, the other threshold is still attempted,
\* the remaining tasks of the batch are still processed, and the commit is always reached.
C12_ScanCompletes ==
    /\ [][C12_ForwardOnly /\ C12_FailedQueryDegrades /\ C12_RestStillProcessed]_vars
    /\ [](C12_NeverStuck /\ C12_LoopHasWork)

\* a scan ended with its commit after its day query failed, its hour query returned two
\* tasks, send_email failed for the first and was still called for the second
C12_Witness ==
    /\ ScanDone(1)
    /\ queryFailed[1] = {"1 day"}
    /\ Len(log[1]) = 2
    /\ log[1][1].kind = "1 hour" /\ ~log[1][1].ok
    /\ log[1][2].kind = "1 hour" /\ log[1][2].task # log[1][1].task

\* ------------------------------------------------------------ C14
\* a deadline_alert is emitted for a send_email call exactly when the call returned True,
\* once, and it carries the task's title and due date and the threshold of the loop
C14_AlertPerSuccessfulSend ==
    \A s \in Scanners : \A i \in DOMAIN log[s] :
        LET e == log[s][i]
        IN /\ Len(e.alert) = IF e.ok THEN 1 ELSE 0
           /\ e.ok =>
                /\ e.alert[1].when = e.kind
                /\ e.alert[1].title = tasks[e.task].title
                /\ e.alert[1].due = tasks[e.task].due_date

\* the entries of the scan of s whose send succeeded and whose emit raised
EmitFailed(s) == {i \in DOMAIN log[s] : log[s][i].ok /\ ~log[s][i].alert[1].emitted}

\* after a failing emit the flag write stays pending until the commit, a successful
\* commit persists it, and the scan does not call send_email for the pair again
C14_EmitFailureKeepsFlag ==
    \A s \in Scanners : \A i \in EmitFailed(s) :
        LET e == log[s][i]
        IN /\ pc[s] # "idle" => Pair(e.task, e.kind) \in staged[s]
           /\ commitResult[s] = "ok" => Flag(tasks[e.task], e.kind)
           /\ Entries(s, e.task, e.kind) = {i}

\* the step in which the emit raises stages the flag exactly as a step in which it
\* succeeds
C14_EmitFailureStages ==
    \A s \in Scanners :
        (Len(log'[s]) = Len(log[s]) + 1 /\ log'[s][Len(log'[s])].ok) =>
            LET e == log'[s][Len(log'[s])]
            IN /\ Pair(e.task, e.kind) \in staged'[s]
               /\ delivered'[Pair(e.task, e.kind)] = delivered[Pair(e.task, e.kind)] + 1
               /\ Pair(e.task, e.kind) \notin unsent'

\* C14: a deadline_alert event is emitted only immediately after send_email returned True
\* for that task and threshold, exactly once per successful send and with 'when' equal to
\* that threshold; a failing emit leaves the staged flag true and does not cause the send
\* to be retried.
C14_LiveAlertGating ==
    /\ [](C14_AlertPerSuccessfulSend /\ C14_EmitFailureKeepsFlag)
    /\ [][C14_EmitFailureStages]_vars

\* a finished, committed scan sent the 1-hour reminder of a task once, the emit raised,
\* and notified_1hour is persisted
C14_Witness ==
    \E i \in EmitFailed(1) :
        /\ ScanDone(1) /\ commitResult[1] = "ok"
        /\ log[1][i].kind = "1 hour"
        /\ Flag(tasks[log[1][i].task], "1 hour")
        /\ delivered[Pair(log[1][i].task, "1 hour")] = 1

\* ------------------------------------------------------------ C18
\* the columns of a row that are not notification flags
Fixed(row) ==
    <<row.id, row.title, row.description, row.due_date, row.status, row.notify_email>>

\* some scanner takes a step of check_deadlines
ScanMoves == \E s \in Scanners : pc'[s] # pc[s] \/ batch'[s] # batch[s]

\* a step of a scan neither creates nor deletes a row nor changes a column other than
\* the two flags
C18_RowsAndFixedColumns ==
    ScanMoves =>
        /\ Len(tasks') = Len(tasks)
        /\ \A t \in Ids : Fixed(tasks'[t]) = Fixed(tasks[t])

\* an iteration of the loop of kind k writes at most the flag of kind k of the task it
\* visits, and only when send_email returned True for it
C18_LoopWritesOwnFlag ==
    \A s \in Scanners : \A k \in Kinds :
        (pc[s] = LoopOf(k) /\ batch'[s] # batch[s]) =>
            /\ tasks' = tasks
            /\ staged'[s] \subseteq staged[s] \cup {Pair(Head(batch[s]), k)}
            /\ staged[s] \subseteq staged'[s]
            /\ staged'[s] # staged[s] =>
                 \E i \in DOMAIN log'[s] :
                    /\ log'[s][i].task = Head(batch[s]) /\ log'[s][i].kind = k
                    /\ log'[s][i].ok
            /\ \A o \in Scanners \ {s} : staged'[o] = staged[o]

\* the queries write nothing
C18_QueriesWriteNothing ==
    \A s \in Scanners :
        (pc[s] \in {"idle", "day_query", "hour_query"} /\ pc'[s] # pc[s]) =>
            tasks' = tasks /\ (pc[s] # "idle" => staged'[s] = staged[s])

\* the commit changes a flag of a row only for a kind whose send succeeded in this scan
C18_CommitWritesSentFlags ==
    \A s \in Scanners :
        (pc[s] = "commit" /\ pc'[s] = "idle") =>
            \A t \in Ids : \A k \in Kinds :
                Flag(tasks'[t], k) # Flag(tasks[t], k) =>
                    /\ Flag(tasks'[t], k)
                    /\ OkEntries(s, t, k) # {}

\* C18: check_deadlines never creates or deletes a task and never changes a task's id,
\* title, description, due_date, status or notify_email; the day loop writes only
\* notified_1day, the hour loop writes only notified_1hour, and a task that was not
\* selected or whose send failed is left entirely unchanged.
C18_ScanFrame ==
    [][C18_RowsAndFixedColumns /\ C18_LoopWritesOwnFlag /\ C18_QueriesWriteNothing
        /\ C18_CommitWritesSentFlags]_vars

\* a committed scan over two tasks: the first got only its 1-day reminder and only
\* notified_1day changed, the second was not selected and is as it was
C18_Witness ==
    /\ ScanDone(1) /\ commitResult[1] = "ok" /\ Len(snapshot[1]) = 2 /\ Len(tasks) = 2
    /\ OkEntries(1, 1, "1 day") # {} /\ CallsFor(1, 2) = {} /\ Entries(1, 1, "1 hour") = {}
    /\ ~snapshot[1][1].notified_1day /\ ~snapshot[1][1].notified_1hour
    /\ tasks[1].notified_1day /\ ~tasks[1].notified_1hour
    /\ tasks[2] = snapshot[1][2]

\* ------------------------------------------------------------ C17
\* C17: within one scan and one threshold, tasks are processed in ascending due_date
\* order, so the reminder for a task with an earlier due_date is sent before the
\* reminder for a task with a later due_date.
C17_AscendingDueDate ==
    \A s \in Scanners : \A i, j \in DOMAIN log[s] :
        (i < j /\ log[s][i].kind = log[s][j].kind) =>
            tasks[log[s][i].task].due_date <= tasks[log[s][j].task].due_date

\* ------------------------------------------------------------ C13
\* the executions of check_deadlines that are in flight
InFlight == {s \in Scanners : pc[s] # "idle"}

\* C13: at most one scan is in flight at any time: the scheduler driver that runs
\* check_deadlines every minute never starts a scan while a previous scan is still
\* running.
C13_AtMostOneInFlight == Cardinality(InFlight) <= 1

\* ------------------------------------------------------------ C16
\* nothing in check_deadlines waits for another execution: a job that is due starts
\* whatever the other execution is doing
C16_NoLock == \A s \in Scanners : pc[s] = "idle" => ENABLED JobFires(s)

\* a query reads the committed flag and the pending writes of its own session only:
\* a flag write another execution has not committed yet does not keep the task out
C16_ReadsCommittedFlag ==
    \A s \in Scanners : \A k \in Kinds :
        QueryAnswered(s, k) =>
            \A t \in Ids :
                t \in Range(batch'[s]) <=>
                    /\ tasks[t].status = "Pending"
                    /\ InWindow(tasks[t].due_date, scanNow[s], k)
                    /\ ~Flag(tasks[t], k)
                    /\ Pair(t, k) \notin staged[s]

\* with no failure at all a reminder is sent at most once by each overlapping execution
C16_OncePerExecution ==
    \A p \in DOMAIN delivered : faults = 0 => delivered[p] <= Cardinality(Scanners)

\* C16: check_deadlines holds no lock of its own, so if two executions overlap on the
\* same store, both can read flag_k = false for the same task before either commits and
\* both send the (task, k) reminder: a state with two successful sends for one
\* (task, threshold) is reachable when scans are not serialized.
C16_OverlapRace ==
    /\ [][C16_ReadsCommittedFlag]_vars
    /\ [](C16_NoLock /\ C16_OncePerExecution)

\* two executions are in flight, nothing has failed, neither has committed, and both
\* have sent the same reminder
C16_Witness ==
    \E t \in Ids : \E k \in Kinds :
        /\ faults = 0
        /\ InFlight = Scanners
        /\ OkEntries(1, t, k) # {} /\ OkEntries(2, t, k) # {}
        /\ ~Flag(tasks[t], k)
        /\ delivered[Pair(t, k)] = 2

\* ------------------------------------------------------------ C19
\* a scan of scanner 1 has just started inside the window of kind k of task t, which is
\* Pending with a recipient and flag_k false, and from here on no query, send_email,
\* emit or commit fails
FairScanStarts(t, k) ==
    /\ t \in Ids
    /\ pc[1] = "day_query"
    /\ tasks[t].status = "Pending"
    /\ InWindow(tasks[t].due_date, scanNow[1], k)
    /\ ~Flag(tasks[t], k)
    /\ ~NoRecipient(tasks[t])
    /\ EMAIL_CRED
    /\ faults = MaxFaults

\* such a scan leads to flag_k being persisted
C19_EventuallyFlagged ==
    \A t \in 1..MaxTasks : \A k \in Kinds : FairScanStarts(t, k) ~> (t \in Ids /\ Flag(tasks[t], k))

\* a persisted flag stays
C19_FlagStays ==
    \A t \in Ids : \A k \in Kinds : Flag(tasks[t], k) => Flag(tasks'[t], k)

\* a reminder is only ever delivered by a scan that started before the due date: once
\* the due date has passed with the sends or commits of every scan inside the window
\* having failed, no later scan delivers it
C19_NoLateDelivery ==
    \A s \in Scanners : \A t \in Ids : \A k \in Kinds :
        delivered'[Pair(t, k)] > delivered[Pair(t, k)] =>
            \/ scanNow[s] < tasks[t].due_date
            \/ pc'[s] = pc[s] /\ batch'[s] = batch[s]

\* a flag that is false when the due date has passed and no scan is in flight stays false
C19_MissedStaysMissed ==
    \A t \in Ids : \A k \in Kinds :
        (tasks[t].due_date <= now /\ NoScanInFlight /\ ~Flag(tasks[t], k)) =>
            ~Flag(tasks'[t], k) /\ delivered'[Pair(t, k)] = delivered[Pair(t, k)]

\* C19: for a Pending task with a non-empty recipient that stays Pending, if serialized
\* scans keep running while now < due_date <= now + window_k and from some scan inside
\* that window on send_email and the commit succeed, then flag_k eventually becomes true
\* and stays true; when the sends or commits fail until due_date has passed, the
\* reminder is never delivered.
C19_EventualNotification ==
    /\ C19_EventuallyFlagged
    /\ [][C19_FlagStays /\ C19_NoLateDelivery /\ C19_MissedStaysMissed]_vars

\* both outcomes: the sends of the 1-hour reminder of task u failed until its due date
\* passed, so it was never delivered; a scan that started inside the window of task t
\* with nothing failing any more has sent its 1-hour reminder and persisted the flag
C19_Witness ==
    \E t, u \in Ids :
        /\ ScanDone(1) /\ commitResult[1] = "ok" /\ faults = MaxFaults /\ EMAIL_CRED
        /\ t \in Known(1) /\ ~snapshot[1][t].notified_1hour
        /\ InWindow(tasks[t].due_date, scanNow[1], "1 hour")
        /\ OkEntries(1, t, "1 hour") # {}
        /\ Flag(tasks[t], "1 hour")
        /\ tasks[u].due_date <= now /\ tasks[u].status = "Pending"
        /\ ~NoRecipient(tasks[u])
        /\ Pair(u, "1 hour") \in unsent
        /\ delivered[Pair(u, "1 hour")] = 0
        /\ ~Flag(tasks[u], "1 hour")

\* ------------------------------------------------------------ C15
\* the observed call of send_email has returned
Returned == mail.phase = "returned"

\* the position of call c in a sequence of calls, 0 when it was not made
Position(calls, c) ==
    IF \E i \in DOMAIN calls : calls[i] = c
    THEN CHOOSE i \in DOMAIN calls : calls[i] = c
    ELSE 0

\* True is returned only when the message was handed to the server after a login, over
\* TLS on the ports that need it, and no call of the session raised
C15_TrueOnlyAfterHandOff ==
    (Returned /\ mail.result.ret) =>
        LET calls == mail.result.calls
        IN /\ mail.failAt \notin DOMAIN calls
           /\ 0 < Position(calls, "login")
           /\ Position(calls, "login") < Position(calls, "send_message")
           /\ mail.port = 465 => Position(calls, "SMTP_SSL") = 2
           /\ mail.port \in {587, 25} =>
                /\ 0 < Position(calls, "starttls")
                /\ Position(calls, "starttls") < Position(calls, "login")
           /\ calls[Len(calls)] = "quit"

\* False is returned whenever a call of the session raised and whenever EMAIL_USER or
\* EMAIL_PASS is unset, and then no SMTP session is opened
C15_FalseOnError ==
    Returned =>
        /\ (mail.user = "" \/ mail.pass = "") =>
                ~mail.result.ret /\ mail.result.calls = <<>>
        /\ (mail.user # "" /\ mail.pass # "" /\ mail.failAt \in 1..Len(SmtpScript(mail.port)))
                => ~mail.result.ret
        /\ (mail.user # "" /\ mail.pass # "" /\ mail.failAt \notin 1..Len(SmtpScript(mail.port)))
                => mail.result.ret

\* no exception leaves send_email
C15_NeverRaises == Returned => ~mail.result.raised

\* the value the scan sees is the value of the call: False without credentials, else
\* whether the session went through
C15_AsSeenByScan ==
    Returned =>
        mail.result.ret = send_email(mail.failAt \notin 1..Len(SmtpScript(mail.port)))

\* C15: send_email returns True only after the message was handed to the SMTP server
\* without error, returns False on every transport, authentication or protocol error and
\* when EMAIL_USER or EMAIL_PASS is unset, and never raises to its caller.
C15_SendEmailContract ==
    /\ C15_TrueOnlyAfterHandOff
    /\ C15_FalseOnError
    /\ C15_NeverRaises
    /\ C15_AsSeenByScan

\* a call on port 587 with credentials in which login was refused returned False
C15_Witness ==
    /\ Returned
    /\ mail.user = "user" /\ mail.pass = "pass" /\ mail.port = 587
    /\ mail.failAt = Position(SmtpScript(587), "login")
    /\ mail.result.calls = <<"EmailMessage", "SMTP", "ehlo", "starttls", "ehlo">>
    /\ ~mail.result.ret

\* ------------------------------------------------------------ C20
\* the step is a POST /add
Posted == request' # request \/ Len(tasks') # Len(tasks)

\* the form of the request carried a title and a due_date that parses
WellFormed(r) == r.title # "" /\ r.fmt \in {"minute", "iso", "date"}

\* a well-formed request is answered with the redirect and stores exactly one new row,
\* Pending with both flags false, whatever the confirmation email did
C20_StoresOnePendingTask ==
    (Posted /\ WellFormed(request')) =>
        /\ request'.code = 302
        /\ Len(tasks') = Len(tasks) + 1
        /\ LET row == tasks'[Len(tasks')]
           IN /\ row.id = Len(tasks) + 1
              /\ row.title = request'.title
              /\ row.notify_email = IF request'.email = "" THEN NoEmail ELSE request'.email
              /\ row.status = "Pending"
              /\ ~row.notified_1day /\ ~row.notified_1hour
        /\ Len(request'.mails) = IF request'.email = "" THEN 0 ELSE 1
        /\ \A i \in DOMAIN request'.mails : request'.mails[i].to = request'.email

\* a request without title, without due_date or with a due_date that does not parse is
\* answered 400, stores nothing and sends nothing
C20_RejectsBadForm ==
    (Posted /\ ~WellFormed(request')) =>
        /\ request'.code = 400
        /\ tasks' = tasks
        /\ request'.mails = <<>>

\* no request runs a scan, moves a running scan or touches a flag or a stored row
C20_NoScanNoFlag ==
    Posted =>
        /\ pc' = pc /\ batch' = batch /\ staged' = staged /\ log' = log
        /\ delivered' = delivered /\ unsent' = unsent /\ commitResult' = commitResult
        /\ \A t \in Ids : tasks'[t] = tasks[t]

====
